---------------------------- MODULE Spec2Model ----------------------------
(***************************************************************************)
(* Model of the two table transforms of src/main.py:                       *)
(*   process_data             (the "ConversationBuilder" of the spec)      *)
(*   transform_chat_responses (the "ResponseConsolidator" of the spec)     *)
(*                                                                         *)
(* A Python str is a sequence of one-character strings, so that the        *)
(* regular expression, split('_'), int() and strip() are computed on the   *)
(* characters.  A frame is [columns, rows]: the column names in order, and *)
(* the rows in order, each row the sequence of its cells by column         *)
(* position (a positional layout, because the frame process_data returns   *)
(* can hold the name "Conversation" more than once).                       *)
(*                                                                         *)
(* df is the decoded input frame, res what the transform returned for it   *)
(* (a frame, or the error it raised), res2 what a second pass of           *)
(* process_data over res returned.  Four specifications draw df from       *)
(* bounded sets of frames:                                                 *)
(*   SpecConv, SpecConvNames   process_data, once and twice                *)
(*   SpecResp, SpecRespNames   transform_chat_responses                    *)
(* The ...Names ones add column names that start like Message_No_<n> and   *)
(* go on with other characters.                                            *)
(***************************************************************************)
EXTENDS Integers, Sequences, FiniteSets

VARIABLES df, res, res2, pc

vars == <<df, res, res2, pc>>

(***************************** bounds **************************************)
\* Longest header of a frame given to process_data.
MaxCols == 3
\* Most rows of a frame given to process_data.
MaxRows == 1
\* Most rows of a frame given to transform_chat_responses.
MaxChatRows == 2

(***************************** strings *************************************)
Range(s) == {s[i] : i \in 1..Len(s)}

DigitChars == <<"0", "1", "2", "3", "4", "5", "6", "7", "8", "9">>

IsDigit(c) == \E i \in 1..10 : DigitChars[i] = c

DigitVal(c) == (CHOOSE i \in 1..10 : DigitChars[i] = c) - 1

\* The characters str.strip() removes, among those the model's cells hold.
IsSpace(c) == c \in {" ", "\t", "\n"}

\* The missing-value marker (NaN / None): no str, so no sequence of characters.
NaN == <<"NaN">>

\* pd.notna(v)
NotNa(v) == v # NaN

RECURSIVE LStrip(_)
LStrip(s) == IF s # <<>> /\ IsSpace(Head(s)) THEN LStrip(Tail(s)) ELSE s

RECURSIVE RStrip(_)
RStrip(s) ==
    IF s # <<>> /\ IsSpace(s[Len(s)]) THEN RStrip(SubSeq(s, 1, Len(s) - 1)) ELSE s

\* str.strip()
Strip(s) == RStrip(LStrip(s))

\* pd.notna(message) and str(message).strip()
HasContent(v) == NotNa(v) /\ Strip(v) # <<>>

MessageNoPrefix == <<"M", "e", "s", "s", "a", "g", "e", "_", "N", "o", "_">>

\* re.match(r'Message_No_\d+', col): the pattern is anchored at the start of
\* the name only, so anything may follow the first digit.
ReMatch(col) ==
    /\ Len(col) > Len(MessageNoPrefix)
    /\ SubSeq(col, 1, Len(MessageNoPrefix)) = MessageNoPrefix
    /\ IsDigit(col[Len(MessageNoPrefix) + 1])

\* col.split('_')[-1]: what follows the last underscore.
RECURSIVE LastSegment(_)
LastSegment(col) ==
    IF \E i \in 1..Len(col) : col[i] = "_"
    THEN LastSegment(Tail(col))
    ELSE col

\* Whether int(s) returns: over letters, digits and '_' it does exactly on a
\* non-empty string of digits, and raises ValueError otherwise.
IntOk(s) == s # <<>> /\ \A i \in 1..Len(s) : IsDigit(s[i])

\* int(s), base 10.
RECURSIVE IntOf(_)
IntOf(s) ==
    IF s = <<>> THEN 0
    ELSE 10 * IntOf(SubSeq(s, 1, Len(s) - 1)) + DigitVal(s[Len(s)])

\* The sort key of both transforms: int(x.split('_')[-1])
ColNum(col) == IntOf(LastSegment(col))

\* Whether the sort key can be computed for every column of the list.
KeysOk(cols) == \A i \in 1..Len(cols) : IntOk(LastSegment(cols[i]))

\* [col for col in df.columns if re.match(r'Message_No_\d+', col)]
MessageCols(columns) == SelectSeq(columns, ReMatch)

\* list.sort(key=..., reverse=...) is stable in both directions: an element
\* goes behind every element that does not have to come after it.
RECURSIVE InsertSorted(_, _, _)
InsertSorted(sorted, col, reverse) ==
    IF sorted = <<>> THEN <<col>>
    ELSE LET last == sorted[Len(sorted)]
             stays == IF reverse THEN ColNum(last) >= ColNum(col)
                                 ELSE ColNum(last) <= ColNum(col)
         IN  IF stays THEN Append(sorted, col)
             ELSE Append(InsertSorted(SubSeq(sorted, 1, Len(sorted) - 1), col, reverse),
                         last)

RECURSIVE SortCols(_, _)
SortCols(cols, reverse) ==
    IF cols = <<>> THEN <<>>
    ELSE InsertSorted(SortCols(SubSeq(cols, 1, Len(cols) - 1), reverse),
                      cols[Len(cols)], reverse)

\* df.columns.get_loc(col) for a name the header holds once (1-based here).
GetLoc(columns, col) == CHOOSE i \in 1..Len(columns) : columns[i] = col

(***************************** process_data ********************************)
ConversationName == <<"C", "o", "n", "v", "e", "r", "s", "a", "t", "i", "o", "n">>

BotPrefix == <<"B", "o", "t", ":", " ">>

UserPrefix == <<"U", "s", "e", "r", ":", " ">>

\* "Bot: " if col_num % 2 == 1 else "User: "
RolePrefix(col) == IF ColNum(col) % 2 = 1 THEN BotPrefix ELSE UserPrefix

\* The parts of one row, over the sorted message columns.
RECURSIVE ConvoParts(_, _, _)
ConvoParts(columns, row, mcols) ==
    IF mcols = <<>> THEN <<>>
    ELSE LET col == Head(mcols)
             message == row[GetLoc(columns, col)]
             rest == ConvoParts(columns, row, Tail(mcols))
         IN  IF HasContent(message)
             THEN <<RolePrefix(col) \o message>> \o rest
             ELSE rest

\* '\n'.join(parts)
RECURSIVE JoinLines(_)
JoinLines(parts) ==
    IF parts = <<>> THEN <<>>
    ELSE IF Len(parts) = 1 THEN parts[1]
    ELSE parts[1] \o <<"\n">> \o JoinLines(Tail(parts))

\* One entry of `conversations`.
ConversationOf(columns, row, mcols) == JoinLines(ConvoParts(columns, row, mcols))

\* A variant that appends the column even when the frame holds the name.
SetConversation_Append(f, mcols) ==
    [columns |-> Append(f.columns, ConversationName),
     rows |-> [i \in 1..Len(f.rows) |->
                Append(f.rows[i], ConversationOf(f.columns, f.rows[i], mcols))]]

\* new_df["Conversation"] = conversations: every column of that name is
\* overwritten; without one, the column is appended.
SetConversation(f, mcols) ==
    IF \E j \in 1..Len(f.columns) : f.columns[j] = ConversationName
    THEN [columns |-> f.columns,
          rows |-> [i \in 1..Len(f.rows) |->
                     [j \in 1..Len(f.columns) |->
                        IF f.columns[j] = ConversationName
                        THEN ConversationOf(f.columns, f.rows[i], mcols)
                        ELSE f.rows[i][j]]]]
    ELSE [columns |-> Append(f.columns, ConversationName),
          rows |-> [i \in 1..Len(f.rows) |->
                     Append(f.rows[i], ConversationOf(f.columns, f.rows[i], mcols))]]

\* The positions new_df[names] selects: for each name asked for, in order,
\* every column of the frame that carries it.
RECURSIVE Positions(_, _)
Positions(columns, names) ==
    IF names = <<>> THEN <<>>
    ELSE SelectSeq([j \in 1..Len(columns) |-> j], LAMBDA j : columns[j] = Head(names))
         \o Positions(columns, Tail(names))

\* new_df[new_columns]
SelectColumns(f, names) ==
    LET pos == Positions(f.columns, names)
    IN  [columns |-> [k \in 1..Len(pos) |-> f.columns[pos[k]]],
         rows |-> [i \in 1..Len(f.rows) |-> [k \in 1..Len(pos) |-> f.rows[i][pos[k]]]]]

NoFrame == [columns |-> <<>>, rows |-> <<>>]

NotRun == [status |-> "none", frame |-> NoFrame, flag |-> FALSE]

\* A variant that takes the last column of the sorted list.
FirstMessageCol_Last(mcols) == mcols[Len(mcols)]

\* first_message_col = message_cols[0] of the sorted list
FirstMessageCol(mcols) == mcols[1]

\* process_data(df): the frame and the flag it returns, or the ValueError that
\* int() raises while the sort computes its keys.
process_data(f) ==
    LET message_cols == MessageCols(f.columns)
    IN  IF message_cols = <<>>
        THEN [status |-> "ok", frame |-> f, flag |-> FALSE]
        ELSE IF ~KeysOk(message_cols)
        THEN [status |-> "ValueError", frame |-> NoFrame, flag |-> FALSE]
        ELSE LET sorted == SortCols(message_cols, FALSE)
                 insert_position == GetLoc(f.columns, FirstMessageCol(sorted))
                 new_columns == SubSeq(f.columns, 1, insert_position - 1)
                                \o <<ConversationName>>
                                \o SubSeq(f.columns, insert_position, Len(f.columns))
             IN  [status |-> "ok",
                  frame |-> SelectColumns(SetConversation(f, sorted), new_columns),
                  flag |-> TRUE]

(***************************** input frames ********************************)
Message_No_1 == MessageNoPrefix \o <<"1">>

Message_No_2 == MessageNoPrefix \o <<"2">>

Message_No_10 == MessageNoPrefix \o <<"1", "0">>

Message_No_1x == MessageNoPrefix \o <<"1", "x">>

Message_No_1_2 == MessageNoPrefix \o <<"1", "_", "2">>

NameCol == <<"N", "a", "m", "e">>

\* The column names of the frames given to process_data: two message columns
\* whose numeric and alphabetic orders differ, a name that only starts like a
\* message column, a column already called Conversation, and a plain column.
ConvNames == {Message_No_2, Message_No_10, Message_No_1_2, ConversationName, NameCol}

\* The same, with an odd-numbered message column and a name whose last
\* segment is no integer.
AllConvNames == ConvNames \cup {Message_No_1, Message_No_1x}

\* The headers of at most n distinct names (read_csv and read_excel rename a
\* repeated name, so a decoded frame holds each name once).
RECURSIVE Headers(_, _)
Headers(names, n) ==
    IF n = 0 THEN {<<>>}
    ELSE LET shorter == Headers(names, n - 1)
         IN  shorter \cup UNION {{Append(h, c) : c \in names \ Range(h)} : h \in shorter}

Letters == <<"a", "b", "c", "d", "e", "f", "g", "h">>

\* The text of the cell in row i, column j: different in every cell.
CellText(i, j) == <<Letters[j], DigitChars[i + 1]>>

Blank == <<" ">>

\* What the cell in row i, column j may hold: a message cell is missing,
\* whitespace only, or text; any other cell holds text.
CellDomain(h, i, j) ==
    IF ReMatch(h[j]) THEN {NaN, Blank, CellText(i, j)} ELSE {CellText(i, j)}

RECURSIVE RowsOf(_, _, _)
RowsOf(h, i, j) ==
    IF j = 0 THEN {<<>>}
    ELSE {Append(r, c) : r \in RowsOf(h, i, j - 1), c \in CellDomain(h, i, j)}

RECURSIVE Tables(_, _)
Tables(h, n) ==
    IF n = 0 THEN {<<>>}
    ELSE {Append(t, r) : t \in Tables(h, n - 1), r \in RowsOf(h, n, Len(h))}

\* The frames with header h and n rows.
FramesOf(h, n) == {[columns |-> h, rows |-> t] : t \in Tables(h, n)}

(***************************** process_data: the machine *******************)
InitConv ==
    /\ \E h \in Headers(ConvNames, MaxCols) : \E n \in 0..MaxRows : df \in FramesOf(h, n)
    /\ res = NotRun
    /\ res2 = NotRun
    /\ pc = "start"

InitConvNames ==
    /\ \E h \in Headers(AllConvNames, MaxCols) : \E n \in 0..MaxRows : df \in FramesOf(h, n)
    /\ res = NotRun
    /\ res2 = NotRun
    /\ pc = "start"

\* processed_df, was_processed = process_data(df)
ProcessData ==
    /\ pc = "start"
    /\ res' = process_data(df)
    /\ pc' = "processed"
    /\ UNCHANGED <<df, res2>>

\* A second pass, over the frame the first one returned.
ProcessAgain ==
    /\ pc = "processed"
    /\ res.status = "ok"
    /\ res2' = process_data(res.frame)
    /\ pc' = "reprocessed"
    /\ UNCHANGED <<df, res>>

NextConv == ProcessData \/ ProcessAgain

SpecConv == InitConv /\ [][NextConv]_vars

SpecConvNames == InitConvNames /\ [][NextConv]_vars

(***************************** transform_chat_responses ********************)
ChatIDName == <<"C", "h", "a", "t", "I", "D">>

ActualOrExpectedName ==
    <<"A", "c", "t", "u", "a", "l", "O", "r", "E", "x", "p", "e", "c", "t", "e", "d">>

ActualName == <<"A", "c", "t", "u", "a", "l">>

ExpectedName == <<"E", "x", "p", "e", "c", "t", "e", "d">>

\* col in df.columns
HasColumn(columns, col) == \E j \in 1..Len(columns) : columns[j] = col

\* columns_to_keep = [col for col in all_columns if col != 'ActualOrExpected']
ColumnsToKeep(columns) == SelectSeq(columns, LAMBDA col : col # ActualOrExpectedName)

\* {col: row[col] for col in columns_to_keep}, as the values in that order.
RowData(columns, row) ==
    LET keep == ColumnsToKeep(columns)
    IN  [k \in 1..Len(keep) |-> row[GetLoc(columns, keep[k])]]

\* The value of the first column of mcols (sorted, highest number first)
\* whose cell has content; None (the missing marker) without one.
RECURSIVE MessageValue(_, _, _)
MessageValue(columns, row, mcols) ==
    IF mcols = <<>> THEN NaN
    ELSE LET v == row[GetLoc(columns, Head(mcols))]
         IN  IF HasContent(v) THEN v ELSE MessageValue(columns, row, Tail(mcols))

\* The two dicts of the loop, keyed by chat id in insertion order:
\* chat_row_data (ids, data) and chat_responses (actual, expected).
NoChats == [ids |-> <<>>, data |-> <<>>, actual |-> <<>>, expected |-> <<>>]

\* A variant without the `chat_id not in ...` tests: every row opens an entry.
StoreRow_NoTest(chats, chat_id, row_data, response_type, message_value) ==
    LET c == [ids |-> Append(chats.ids, chat_id),
              data |-> Append(chats.data, row_data),
              actual |-> Append(chats.actual, NaN),
              expected |-> Append(chats.expected, NaN)]
        k == Len(c.ids)
    IN  IF message_value = NaN THEN c
        ELSE IF response_type = ActualName
        THEN [c EXCEPT !.actual[k] = message_value]
        ELSE IF response_type = ExpectedName
        THEN [c EXCEPT !.expected[k] = message_value]
        ELSE c

\* A variant in which every row of a chat id overwrites the stored row data.
StoreRow_Overwrite(chats, chat_id, row_data, response_type, message_value) ==
    LET known == \E k \in 1..Len(chats.ids) : chats.ids[k] = chat_id
        c == IF known
             THEN [chats EXCEPT !.data = [n \in 1..Len(chats.ids) |->
                                           IF chats.ids[n] = chat_id THEN row_data
                                           ELSE chats.data[n]]]
             ELSE [ids |-> Append(chats.ids, chat_id),
                   data |-> Append(chats.data, row_data),
                   actual |-> Append(chats.actual, NaN),
                   expected |-> Append(chats.expected, NaN)]
        k == CHOOSE n \in 1..Len(c.ids) : c.ids[n] = chat_id
    IN  IF message_value = NaN THEN c
        ELSE IF response_type = ActualName
        THEN [c EXCEPT !.actual[k] = message_value]
        ELSE IF response_type = ExpectedName
        THEN [c EXCEPT !.expected[k] = message_value]
        ELSE c

\* One pass of the loop body for a row: the first row of a chat id stores its
\* data and None for both responses; a message value found is stored under
\* the row's response type, and only 'Actual' and 'Expected' are read later.
StoreRow(chats, chat_id, row_data, response_type, message_value) ==
    LET known == \E k \in 1..Len(chats.ids) : chats.ids[k] = chat_id
        c == IF known THEN chats
             ELSE [ids |-> Append(chats.ids, chat_id),
                   data |-> Append(chats.data, row_data),
                   actual |-> Append(chats.actual, NaN),
                   expected |-> Append(chats.expected, NaN)]
        k == CHOOSE n \in 1..Len(c.ids) : c.ids[n] = chat_id
    IN  IF message_value = NaN THEN c
        ELSE IF response_type = ActualName
        THEN [c EXCEPT !.actual[k] = message_value]
        ELSE IF response_type = ExpectedName
        THEN [c EXCEPT !.expected[k] = message_value]
        ELSE c

\* for _, row in df.iterrows(): ...
RECURSIVE ScanRows(_, _, _, _)
ScanRows(f, mcols, i, chats) ==
    IF i > Len(f.rows) THEN chats
    ELSE LET row == f.rows[i]
         IN  ScanRows(f, mcols, i + 1,
                      StoreRow(chats,
                               row[GetLoc(f.columns, ChatIDName)],
                               RowData(f.columns, row),
                               row[GetLoc(f.columns, ActualOrExpectedName)],
                               MessageValue(f.columns, row, mcols)))

\* d[key] = value on a dict given as its keys and values in insertion order:
\* a key the dict holds keeps its place, a new key goes last.
DictSet(d, key, value) ==
    IF \E k \in 1..Len(d.keys) : d.keys[k] = key
    THEN [d EXCEPT !.vals = [k \in 1..Len(d.keys) |->
                               IF d.keys[k] = key THEN value ELSE d.vals[k]]]
    ELSE [keys |-> Append(d.keys, key), vals |-> Append(d.vals, value)]

\* new_row = row_data.copy(); new_row['Actual'] = ...; new_row['Expected'] = ...
NewRow(keep, chats, k) ==
    DictSet(DictSet([keys |-> keep, vals |-> chats.data[k]], ActualName, chats.actual[k]),
            ExpectedName, chats.expected[k])

\* pd.DataFrame(result_data): the columns are the keys of the rows; an empty
\* list gives a frame without columns.
ResultFrame(keep, chats) ==
    IF chats.ids = <<>> THEN NoFrame
    ELSE [columns |-> NewRow(keep, chats, 1).keys,
          rows |-> [k \in 1..Len(chats.ids) |-> NewRow(keep, chats, k).vals]]

\* transform_chat_responses(df): the frame it returns, "SchemaError" for the
\* two ValueErrors it raises itself (lines 80 and 85), or "ValueError" for the
\* one int() raises while the sort computes its keys.
transform_chat_responses(f) ==
    IF ~(HasColumn(f.columns, ChatIDName) /\ HasColumn(f.columns, ActualOrExpectedName))
    THEN [status |-> "SchemaError", frame |-> NoFrame, flag |-> FALSE]
    ELSE LET message_cols == MessageCols(f.columns)
         IN  IF message_cols = <<>>
             THEN [status |-> "SchemaError", frame |-> NoFrame, flag |-> FALSE]
             ELSE IF ~KeysOk(message_cols)
             THEN [status |-> "ValueError", frame |-> NoFrame, flag |-> FALSE]
             ELSE [status |-> "ok",
                   frame |-> ResultFrame(ColumnsToKeep(f.columns),
                                         ScanRows(f, SortCols(message_cols, TRUE), 1, NoChats)),
                   flag |-> FALSE]

(***************************** response frames *****************************)
Message_No_1_5 == MessageNoPrefix \o <<"1", "_", "5">>

\* The headers of the frames given to transform_chat_responses: the full
\* schema with two message columns, the same columns in another order with a
\* plain column, and a header for each way of lacking a required column.
RespHeaders ==
    {<<ChatIDName, ActualOrExpectedName, Message_No_1, Message_No_2>>,
     <<Message_No_2, NameCol, ActualOrExpectedName, ChatIDName>>,
     <<ChatIDName, ActualOrExpectedName, NameCol>>,
     <<ChatIDName, Message_No_1>>,
     <<ActualOrExpectedName, Message_No_1>>}

\* Headers with a name that only starts like a message column.
OddNameHeaders ==
    {<<ChatIDName, ActualOrExpectedName, Message_No_1, Message_No_1_5>>,
     <<ChatIDName, ActualOrExpectedName, Message_No_1, Message_No_1x>>}

ChatIds == {<<"i", "d", "1">>, <<"i", "d", "2">>}

OtherKind == <<"O", "t", "h", "e", "r">>

ResponseKinds == {ExpectedName, ActualName, OtherKind}

\* What the cell in row i, column j may hold.
RespCellDomain(h, i, j) ==
    IF h[j] = ChatIDName THEN ChatIds
    ELSE IF h[j] = ActualOrExpectedName THEN ResponseKinds
    ELSE CellDomain(h, i, j)

RECURSIVE RespRowsOf(_, _, _)
RespRowsOf(h, i, j) ==
    IF j = 0 THEN {<<>>}
    ELSE {Append(r, c) : r \in RespRowsOf(h, i, j - 1), c \in RespCellDomain(h, i, j)}

RECURSIVE RespTables(_, _)
RespTables(h, n) ==
    IF n = 0 THEN {<<>>}
    ELSE {Append(t, r) : t \in RespTables(h, n - 1), r \in RespRowsOf(h, n, Len(h))}

RespFramesOf(h, n) == {[columns |-> h, rows |-> t] : t \in RespTables(h, n)}

(***************************** transform: the machine **********************)
InitResp ==
    /\ \E h \in RespHeaders : \E n \in 0..MaxChatRows : df \in RespFramesOf(h, n)
    /\ res = NotRun
    /\ res2 = NotRun
    /\ pc = "start"

InitRespNames ==
    /\ \E h \in RespHeaders \cup OddNameHeaders :
         \E n \in 0..MaxChatRows : df \in RespFramesOf(h, n)
    /\ res = NotRun
    /\ res2 = NotRun
    /\ pc = "start"

\* transformed_df = transform_chat_responses(df)
Transform ==
    /\ pc = "start"
    /\ res' = transform_chat_responses(df)
    /\ pc' = "transformed"
    /\ UNCHANGED <<df, res2>>

SpecResp == InitResp /\ [][Transform]_vars

SpecRespNames == InitRespNames /\ [][Transform]_vars

(***************************** the spec's reading ************************)
\* A message column as the spec defines it: the whole name is "Message_No_"
\* followed by a non-negative base-10 integer literal.
IsMessageName(col) ==
    /\ Len(col) > Len(MessageNoPrefix)
    /\ SubSeq(col, 1, Len(MessageNoPrefix)) = MessageNoPrefix
    /\ \A i \in (Len(MessageNoPrefix) + 1)..Len(col) : IsDigit(col[i])

\* The index of such a column: that integer.
MessageIndex(col) == IntOf(SubSeq(col, Len(MessageNoPrefix) + 1, Len(col)))

\* The positions of the header's columns that process_data takes for message
\* columns.
MatchedAt(columns) == {j \in 1..Len(columns) : ReMatch(columns[j])}

\* The sequence s without its element at position p.
Without(s, p) == SubSeq(s, 1, p - 1) \o SubSeq(s, p + 1, Len(s))

\* The frame f without the columns named Conversation.
RECURSIVE OtherPositions(_, _)
OtherPositions(columns, j) ==
    IF j > Len(columns) THEN <<>>
    ELSE (IF columns[j] = ConversationName THEN <<>> ELSE <<j>>)
         \o OtherPositions(columns, j + 1)

WithoutConversation(f) ==
    LET pos == OtherPositions(f.columns, 1)
    IN  [columns |-> [k \in 1..Len(pos) |-> f.columns[pos[k]]],
         rows |-> [i \in 1..Len(f.rows) |-> [k \in 1..Len(pos) |-> f.rows[i][pos[k]]]]]

\* Conversation is a new column of the returned header directly in front of
\* the input's column j, and the rest of the header is the input's.
InsertedBefore(j) ==
    /\ j < Len(res.frame.columns)
    /\ res.frame.columns[j] = ConversationName
    /\ res.frame.columns[j + 1] = df.columns[j]
    /\ Without(res.frame.columns, j) = df.columns

(***************************** C1 ******************************************)
\* C1 as stated: for a frame with at least one message column, process_data
\* returns a frame with one more column, Conversation sits directly in front
\* of the message column that comes first in the original column order, and
\* the other columns keep their order.
C1_BeforeFirstByPosition ==
    (pc = "processed" /\ MatchedAt(df.columns) # {})
        => /\ res.status = "ok"
           /\ Len(res.frame.columns) = Len(df.columns) + 1
           /\ \E j \in MatchedAt(df.columns) :
                /\ \A k \in MatchedAt(df.columns) : j <= k
                /\ InsertedBefore(j)

\* C1 amended: whenever process_data returns a transformed frame, the frame
\* has one more column than the input, Conversation sits directly in front of
\* the message column with the smallest integer suffix (the leftmost of them
\* when several carry that suffix), wherever that column stands, and the
\* other columns keep their order.
C1_BeforeSmallestSuffix ==
    (pc = "processed" /\ MatchedAt(df.columns) # {} /\ res.status = "ok")
        => /\ res.flag
           /\ Len(res.frame.columns) = Len(df.columns) + 1
           /\ \E j \in MatchedAt(df.columns) :
                /\ \A k \in MatchedAt(df.columns) :
                     \/ ColNum(df.columns[j]) < ColNum(df.columns[k])
                     \/ ColNum(df.columns[j]) = ColNum(df.columns[k]) /\ j <= k
                /\ InsertedBefore(j)

\* C1's case: a transformed frame in which a message column with a larger
\* suffix stands to the left of the one with the smallest suffix.
C1_Witness ==
    /\ pc = "processed"
    /\ res.status = "ok"
    /\ res.flag
    /\ \E j, k \in MatchedAt(df.columns) :
         j < k /\ ColNum(df.columns[j]) > ColNum(df.columns[k])
    /\ \E j \in 1..Len(df.columns) : df.columns[j] = NameCol

(***************************** C3 ******************************************)
\* C3 as stated: a second pass over the frame the first pass returned yields
\* that frame again, columns and cells.
C3_SecondPassIdentity ==
    pc = "reprocessed" => (res2.status = "ok" /\ res2.frame = res.frame)

\* The cells of every column named Conversation in frame f hold, row by row,
\* the texts of the sequence convs.
ConversationIs(f, convs) ==
    \A i \in 1..Len(f.rows) : \A j \in 1..Len(f.columns) :
        f.columns[j] = ConversationName => f.rows[i][j] = convs[i]

\* C3 amended: a second pass changes nothing only when the frame has no
\* message column.  Otherwise the frame the first pass returned still holds
\* its message columns, and the second pass inserts Conversation once more in
\* front of the same message column: the frame gains columns named
\* Conversation (exactly one, at the first one's place, when the input had no
\* column of that name), every Conversation column holds the text the first
\* pass produced, and all other columns are as they were.
C3_SecondPassAddsConversation ==
    pc = "reprocessed"
        => /\ res2.status = "ok"
           /\ res2.flag = res.flag
           /\ ~res.flag => res2.frame = res.frame
           /\ res.flag =>
                /\ Len(res2.frame.columns) > Len(res.frame.columns)
                /\ Len(res2.frame.rows) = Len(res.frame.rows)
                /\ WithoutConversation(res2.frame) = WithoutConversation(res.frame)
                /\ \E p \in 1..Len(res.frame.columns) :
                     /\ res.frame.columns[p] = ConversationName
                     /\ ConversationIs(res2.frame,
                                       [i \in 1..Len(res.frame.rows) |-> res.frame.rows[i][p]])
                     /\ (\A j \in 1..Len(df.columns) : df.columns[j] # ConversationName)
                          => res2.frame.columns
                               = SubSeq(res.frame.columns, 1, p) \o <<ConversationName>>
                                 \o SubSeq(res.frame.columns, p + 1, Len(res.frame.columns))

\* C3's case: a second pass over a transformed frame whose Conversation
\* column holds text.
C3_Witness ==
    /\ pc = "reprocessed"
    /\ res.flag
    /\ res2.flag
    /\ \E i \in 1..Len(res.frame.rows) : \E j \in 1..Len(res.frame.columns) :
         res.frame.columns[j] = ConversationName /\ res.frame.rows[i][j] # <<>>

(***************************** C2 ******************************************)
\* A cell that is present and not empty once its whitespace is trimmed.
Populated(v) == v # NaN /\ \E k \in 1..Len(v) : ~IsSpace(v[k])

\* The lines of the message columns with index n, left to right.
RECURSIVE LinesAt(_, _, _, _)
LinesAt(columns, row, n, j) ==
    IF j > Len(columns) THEN <<>>
    ELSE (IF IsMessageName(columns[j]) /\ MessageIndex(columns[j]) = n /\ Populated(row[j])
          THEN <<(IF n % 2 = 1 THEN BotPrefix ELSE UserPrefix) \o row[j]>>
          ELSE <<>>)
         \o LinesAt(columns, row, n, j + 1)

\* The largest index of a message column of the header (0 without one).
TopIndex(columns) ==
    LET idx == {MessageIndex(columns[j]) : j \in {k \in 1..Len(columns) : IsMessageName(columns[k])}}
    IN  IF idx = {} THEN 0 ELSE CHOOSE n \in idx : \A m \in idx : m <= n

\* The lines of a row in ascending order of the columns' index, from n up.
RECURSIVE LinesFrom(_, _, _)
LinesFrom(columns, row, n) ==
    IF n > TopIndex(columns) THEN <<>>
    ELSE LinesAt(columns, row, n, 1) \o LinesFrom(columns, row, n + 1)

\* The lines joined by newlines; no line gives the empty string.
RECURSIVE Joined(_)
Joined(lines) ==
    IF lines = <<>> THEN <<>>
    ELSE IF Len(lines) = 1 THEN lines[1]
    ELSE Joined(SubSeq(lines, 1, Len(lines) - 1)) \o <<"\n">> \o lines[Len(lines)]

ExpectedConversation(columns, row) == Joined(LinesFrom(columns, row, 0))

\* C2: in every row of a frame with message columns, the Conversation cell
\* process_data produces is the newline-joined sequence, in ascending order of
\* the message columns' integer suffix, of "Bot: <value>" for an odd and
\* "User: <value>" for an even suffix, over the cells that are present and
\* not blank; a row without such a cell gets the empty string.
C2_ConversationText ==
    (/\ pc = "processed"
     /\ res.status = "ok"
     /\ \E j \in 1..Len(df.columns) : IsMessageName(df.columns[j]))
        => /\ \E j \in 1..Len(res.frame.columns) : res.frame.columns[j] = ConversationName
           /\ Len(res.frame.rows) = Len(df.rows)
           /\ ConversationIs(res.frame,
                             [i \in 1..Len(df.rows) |-> ExpectedConversation(df.columns, df.rows[i])])

(***************************** C4 ******************************************)
\* C4: for a frame without any message column, process_data returns the
\* input frame unchanged with didTransform = false, and raises nothing.
C4_NoMessageColumnsNoOp ==
    (pc = "processed" /\ \A j \in 1..Len(df.columns) : ~IsMessageName(df.columns[j]))
        => res = [status |-> "ok", frame |-> df, flag |-> FALSE]

(***************************** C9 ******************************************)
\* C9: a column is treated as a message column exactly when its whole name
\* is Message_No_<integer>, its index is that integer, every other name is a
\* plain column, and classifying and ordering the columns of a frame never
\* fails.
C9_Classification ==
    pc = "processed"
        => /\ res.status = "ok"
           /\ MessageCols(df.columns) = SelectSeq(df.columns, IsMessageName)
           /\ \A j \in 1..Len(df.columns) :
                ReMatch(df.columns[j]) => ColNum(df.columns[j]) = MessageIndex(df.columns[j])
           /\ res.flag = (\E j \in 1..Len(df.columns) : IsMessageName(df.columns[j]))

(***************************** C5 ******************************************)
\* The frame has both required columns.
HasRequired(columns) ==
    /\ \E j \in 1..Len(columns) : columns[j] = ChatIDName
    /\ \E j \in 1..Len(columns) : columns[j] = ActualOrExpectedName

\* C5: transform_chat_responses fails with the schema error exactly when the
\* frame lacks ChatID, lacks ActualOrExpected or has no message column, and on
\* every other frame it returns a frame without raising.
C5_SchemaErrorIff ==
    pc = "transformed"
        => LET schemaless ==
                   \/ ~HasRequired(df.columns)
                   \/ \A j \in 1..Len(df.columns) : ~IsMessageName(df.columns[j])
           IN  /\ schemaless => res.status = "SchemaError"
               /\ ~schemaless => res.status = "ok"

(***************************** C6 ******************************************)
\* The chat id of row i of frame f.
ChatIdOf(f, i) == f.rows[i][GetLoc(f.columns, ChatIDName)]

\* The rows of f that are the first of their chat id, in input order.
FirstRows(f) ==
    SelectSeq([i \in 1..Len(f.rows) |-> i],
              LAMBDA i : \A e \in 1..(i - 1) : ChatIdOf(f, e) # ChatIdOf(f, i))

C7_OutputColumns ==
    (/\ pc = "transformed"
     /\ HasRequired(df.columns)
     /\ \E j \in 1..Len(df.columns) : ReMatch(df.columns[j]))
        => LET kept == SelectSeq(df.columns, LAMBDA col : col # ActualOrExpectedName)
           IN  /\ res.status = "ok"
               /\ \/ res.frame.columns = kept \o <<ExpectedName, ActualName>>
                  \/ res.frame.columns = kept \o <<ActualName, ExpectedName>>

(***************************** C8 ******************************************)
\* The effective message value of a row: the cell of its highest-index
\* message column that is populated; the missing marker without one.
EffectiveValue(columns, row) ==
    LET cand == {j \in 1..Len(columns) : IsMessageName(columns[j]) /\ Populated(row[j])}
    IN  IF cand = {} THEN NaN
        ELSE row[CHOOSE j \in cand :
                   \A m \in cand : MessageIndex(columns[m]) <= MessageIndex(columns[j])]

\* The effective value of the last row of chat id `id` and kind `kind` that
\* has one; the missing marker without such a row.
LastValue(f, id, kind) ==
    LET rows == {i \in 1..Len(f.rows) :
                   /\ ChatIdOf(f, i) = id
                   /\ f.rows[i][GetLoc(f.columns, ActualOrExpectedName)] = kind
                   /\ EffectiveValue(f.columns, f.rows[i]) # NaN}
    IN  IF rows = {} THEN NaN
        ELSE EffectiveValue(f.columns, f.rows[CHOOSE i \in rows : \A e \in rows : e <= i])

\* C8: in the output, the cell of a chat id in column Expected (Actual) is
\* the effective message value of the last input row of that chat id and
\* kind that has one, and the missing marker when there is none.
C8_LastValuePerKind ==
    (pc = "transformed" /\ res.status = "ok")
        => \A k \in 1..Len(res.frame.rows) : \A kind \in {ExpectedName, ActualName} :
             res.frame.rows[k][GetLoc(res.frame.columns, kind)]
                = LastValue(df, ChatIdOf(res.frame, k), kind)

(***************************** C10 *****************************************)
\* C10: every column of an output row other than Expected and Actual holds
\* the value of the first input row of that chat id.
C10_FirstSeenWins ==
    (pc = "transformed" /\ res.status = "ok")
        => \A k \in 1..Len(res.frame.rows) : \A c \in 1..Len(res.frame.columns) :
             res.frame.columns[c] \notin {ExpectedName, ActualName}
                => LET first == CHOOSE i \in 1..Len(df.rows) :
                                  /\ ChatIdOf(df, i) = ChatIdOf(res.frame, k)
                                  /\ \A e \in 1..(i - 1) : ChatIdOf(df, e) # ChatIdOf(df, i)
                   IN  res.frame.rows[k][c]
                          = df.rows[first][GetLoc(df.columns, res.frame.columns[c])]

\* C10's case: a later row of a chat id carries other values than its first
\* row, in a message column and under another response kind.
C10_Witness ==
    /\ pc = "transformed"
    /\ res.status = "ok"
    /\ Len(res.frame.rows) = 1
    /\ Len(df.rows) >= 2
    /\ \E j \in 1..Len(df.columns) :
         /\ ReMatch(df.columns[j])
         /\ df.rows[1][j] = NaN
         /\ Populated(df.rows[2][j])
    /\ \E j \in 1..Len(df.columns) :
         df.columns[j] = ActualOrExpectedName /\ df.rows[1][j] # df.rows[2][j]

=============================================================================
